---- MODULE Spec2Model ----
(***************************************************************************)
(* Model of mssql_mcp_server/server.py: the identifier validator, the      *)
(* statement classifier, the configuration resolver and the three gateway  *)
(* handlers that touch the database (list_resources, read_resource,        *)
(* call_tool).                                                             *)
(*                                                                         *)
(* Text is a sequence of one-character strings, so that the regular        *)
(* expression, split, find, strip and upper of the source are computed on  *)
(* characters.  The ODBC driver (pyodbc) is the environment: every driver  *)
(* call either succeeds or raises, chosen nondeterministically.            *)
(***************************************************************************)
EXTENDS Integers, Sequences, FiniteSets, TLC

VARIABLES
    op,         \* handler being run: "idle", "list_resources", "read_resource", "call_tool"
    pc,         \* position inside the handler
    environ,    \* os.environ and pyodbc.drivers() as seen by this invocation
    request,    \* the handler's arguments
    config,     \* the dict returned by get_db_config()
    conn,       \* the pyodbc connection: "none", "open", "closed"
    cursor,     \* the pyodbc cursor: "none", "open", "closed"
    connects,   \* number of pyodbc.connect calls of this invocation
    sent,       \* statements passed to cursor.execute, in order
    commits,    \* number of conn.commit calls of this invocation
    engine,     \* what the engine reported for the executed statement
    fetched,    \* rows obtained by cursor.fetchall, or NotFetched
    raised,     \* the exception raised inside this invocation, or NoError
    response,   \* how the handler ended: returned value or raised error
    arg,        \* input of the pure function under test
    fpc,        \* position of the pure-function harness
    ret,        \* result of the pure function
    ret2        \* result of applying the classifier to its own stripped text

gwvars == <<op, pc, environ, request, config, conn, cursor, connects, sent,
            commits, engine, fetched, raised, response>>
fnvars == <<arg, fpc, ret, ret2>>
vars == <<op, pc, environ, request, config, conn, cursor, connects, sent,
          commits, engine, fetched, raised, response, arg, fpc, ret, ret2>>

(***************************************************************************)
(* Bounds of the model.                                                    *)
(***************************************************************************)
\* longest table name handed to validate_table_name
MaxNameLen == 4
\* most pieces a generated statement text is put together from
MaxChunks == 5
\* most rows the engine returns for one statement
MaxRows == 2

(***************************************************************************)
(* Text helpers: Python's str and re operations on character sequences.    *)
(***************************************************************************)
Min(S) == CHOOSE x \in S : \A y \in S : x <= y
Max(S) == CHOOSE x \in S : \A y \in S : x >= y

\* str.startswith / a literal match of pat at (1-based) position i of s
MatchAt(s, i, pat) ==
    /\ i >= 1
    /\ i + Len(pat) - 1 <= Len(s)
    /\ \A k \in 1..Len(pat) : s[i + k - 1] = pat[k]

StartsWith(s, pat) == MatchAt(s, 1, pat)

\* pat in s
Contains(s, pat) == \E i \in 1..(Len(s) + 1) : MatchAt(s, i, pat)

\* str.rfind(pat): 0-based index of the last occurrence, -1 when there is none
FindLast(s, pat) ==
    LET hits == {i \in 1..Len(s) : MatchAt(s, i, pat)}
    IN  IF hits = {} THEN -1 ELSE Max(hits) - 1

\* str.find(pat): 0-based index of the first occurrence, -1 when there is none
Find(s, pat) ==
    LET hits == {i \in 1..Len(s) : MatchAt(s, i, pat)}
    IN  IF hits = {} THEN -1 ELSE Min(hits) - 1

\* str.split(sep) for a one-character separator: always at least one part
RECURSIVE SplitOn(_, _)
SplitOn(s, sep) ==
    LET p == Find(s, <<sep>>)
    IN  IF p = -1 THEN <<s>>
        ELSE <<SubSeq(s, 1, p)>> \o SplitOn(SubSeq(s, p + 2, Len(s)), sep)

\* sep.join(parts)
RECURSIVE Join(_, _)
Join(sep, parts) ==
    IF Len(parts) = 0 THEN << >>
    ELSE IF Len(parts) = 1 THEN parts[1]
    ELSE parts[1] \o sep \o Join(sep, Tail(parts))

\* characters str.strip() and str.split() treat as whitespace
Whitespace == {" ", "\t", "\n", "\r", "\f"}

LowerCase == <<"a","b","c","d","e","f","g","h","i","j","k","l","m",
               "n","o","p","q","r","s","t","u","v","w","x","y","z">>
UpperCase == <<"A","B","C","D","E","F","G","H","I","J","K","L","M",
               "N","O","P","Q","R","S","T","U","V","W","X","Y","Z">>
Digits == {"0","1","2","3","4","5","6","7","8","9"}

\* str.upper(), character by character
UpperChar(c) ==
    IF \E i \in 1..26 : LowerCase[i] = c
    THEN UpperCase[CHOOSE i \in 1..26 : LowerCase[i] = c]
    ELSE c

Upper(s) == [i \in 1..Len(s) |-> UpperChar(s[i])]

\* s.strip().split()[0] if s.strip() else "": the first whitespace-delimited word
FirstWord(s) ==
    LET solid == {i \in 1..Len(s) : s[i] \notin Whitespace}
    IN  IF solid = {} THEN << >>
        ELSE LET b == Min(solid)
                 stops == {j \in b..Len(s) : s[j] \in Whitespace}
                 e == IF stops = {} THEN Len(s) ELSE Min(stops) - 1
             IN  SubSeq(s, b, e)

(***************************************************************************)
(* validate_table_name                                                     *)
(***************************************************************************)
\* the character class [a-zA-Z0-9_]
WordChar(c) ==
    \/ \E i \in 1..26 : LowerCase[i] = c \/ UpperCase[i] = c
    \/ c \in Digits
    \/ c = "_"

\* length of the longest run of [a-zA-Z0-9_] starting at position i (greedy +)
WordRun(s, i) ==
    LET stops == {j \in i..Len(s) : ~WordChar(s[j])}
    IN  IF i > Len(s) THEN 0
        ELSE IF stops = {} THEN Len(s) - i + 1
        ELSE Min(stops) - i

\* where "$" matches without re.MULTILINE: at the very end, or before a final
\* newline
DollarAt(s, p) ==
    \/ p = Len(s) + 1
    \/ p = Len(s) /\ s[p] = "\n"

\* re.match(r'^[a-zA-Z0-9_]+(\.[a-zA-Z0-9_]+)?$', s)
ReMatchTableName(s) ==
    LET n1 == WordRun(s, 1)
        p  == n1 + 1
        n2 == WordRun(s, p + 1)
    IN  /\ n1 >= 1
        /\ \/ DollarAt(s, p)
           \/ /\ p <= Len(s)
              /\ s[p] = "."
              /\ n2 >= 1
              /\ DollarAt(s, p + 1 + n2)

Ok(v) == [ok |-> TRUE, value |-> v]
Raise(type, msg) == [ok |-> FALSE, type |-> type, msg |-> msg]

validate_table_name(table_name) ==
    IF ~ReMatchTableName(table_name)
    THEN Raise("ValueError", <<"Invalid table name: ">> \o table_name)
    ELSE LET parts == SplitOn(table_name, ".")
         IN  IF Len(parts) = 2
             THEN Ok(<<"[">> \o parts[1] \o <<"]", ".", "[">> \o parts[2] \o <<"]">>)
             ELSE Ok(<<"[">> \o table_name \o <<"]">>)

(***************************************************************************)
(* is_select_query                                                         *)
(***************************************************************************)
\* the greedy variant /\*.*\*/ : the last "*/" instead of the first
CloseAfterGreedy(s, k) ==
    LET hits == {j \in k..Len(s) : MatchAt(s, j, <<"*", "/">>)}
    IN  IF hits = {} THEN 0 ELSE Max(hits)

\* 1-based position of the first "*/" at or after position k, 0 when none
CloseAfter(s, k) ==
    LET hits == {j \in k..Len(s) : MatchAt(s, j, <<"*", "/">>)}
    IN  IF hits = {} THEN 0 ELSE Min(hits)

\* where the comment opened at position i ends (position of its "*/"), 0 when
\* the pattern /\*.*?\*/ does not match at i
BlockCommentEnd(s, i) ==
    IF MatchAt(s, i, <<"/", "*">>) THEN CloseAfter(s, i + 2) ELSE 0

\* re.sub(r'/\*.*?\*/', '', s, flags=re.DOTALL), scanning from position i
RECURSIVE ReSubFrom(_, _)
ReSubFrom(s, i) ==
    IF i > Len(s) THEN << >>
    ELSE IF BlockCommentEnd(s, i) # 0
         THEN ReSubFrom(s, BlockCommentEnd(s, i) + 2)
         ELSE <<s[i]>> \o ReSubFrom(s, i + 1)

ReSubBlockComments(s) == ReSubFrom(s, 1)

\* str.rfind in place of str.find: the last "--" of the line
CommentPosLast(line) == FindLast(line, <<"-", "-">>)

\* the comment_pos of one line
CommentPos(line) == Find(line, <<"-", "-">>)

\* the loop body: cut the line at its first "--"
CutLineComment(line) ==
    IF CommentPos(line) # -1 THEN SubSeq(line, 1, CommentPos(line)) ELSE line

\* the two comment passes: query_cleaned as it stands before the first word
\* is taken
strip_comments(query) ==
    LET lines == SplitOn(ReSubBlockComments(query), "\n")
        cleaned_lines == [i \in 1..Len(lines) |-> CutLineComment(lines[i])]
    IN  Join(<<"\n">>, cleaned_lines)

SELECT == <<"S","E","L","E","C","T">>

\* first_word.upper() == "SELECT"
IsSelectWord(first_word) == Upper(first_word) = SELECT

is_select_query(query) == IsSelectWord(FirstWord(strip_comments(query)))

\* every sequence over A of length at most n
SeqsUpTo(A, n) == UNION {[1..k -> A] : k \in 0..n}

RECURSIVE Flatten(_)
Flatten(ss) == IF Len(ss) = 0 THEN << >> ELSE ss[1] \o Flatten(Tail(ss))

(***************************************************************************)
(* get_db_config and get_command                                           *)
(***************************************************************************)
\* os.getenv of a variable that is not set
Unset == "<unset>"

\* os.getenv(name, default)
Getenv(env, name, default) == IF env[name] = Unset THEN default ELSE env[name]

\* Python's "not s" for an optional string: None or empty
Falsy(s) == s = Unset \/ s = ""

\* s.lower() == "true"
LowerIsTrue(s) == s \in {"true", "True", "TRUE"}

\* 'SQL Server' in d, for the driver names of the model
SqlServerDrivers == {"ODBC Driver 17 for SQL Server", "SQL Server"}
\* server.startswith("(localdb)\\") and server.startswith("(localdb)")
LocalDbServers == {"(localdb)\\MSSQLLocalDB"}
\* ".database.windows.net" in server
AzureServers == {"srv.database.windows.net"}

\* [d for d in pyodbc.drivers() if 'SQL Server' in d]
SelectDrivers(ds) == SelectSeq(ds, LAMBDA d : d \in SqlServerDrivers)

ServerPart(server, port) ==
    IF port # "" /\ port # "1433" /\ server \notin LocalDbServers
    THEN <<"SERVER=", server, ",", port>>
    ELSE <<"SERVER=", server>>

AuthParts(env, use_windows_auth) ==
    IF use_windows_auth
    THEN <<<<"Trusted_Connection=yes">>>>
    ELSE <<<<"UID=", env.MSSQL_USER>>, <<"PWD=", env.MSSQL_PASSWORD>>>>

EncryptParts(env, server) ==
    IF server \in AzureServers
    THEN IF LowerIsTrue(Getenv(env, "MSSQL_ENCRYPT", "true"))
         THEN <<<<"Encrypt=yes">>, <<"TrustServerCertificate=no">>>>
         ELSE << >>
    ELSE IF LowerIsTrue(Getenv(env, "MSSQL_ENCRYPT", "false"))
         THEN <<<<"Encrypt=yes">>, <<"TrustServerCertificate=yes">>>>
         ELSE << >>

get_db_config(env) ==
    LET server == Getenv(env, "MSSQL_SERVER", "localhost")
        database == env.MSSQL_DATABASE
        port == Getenv(env, "MSSQL_PORT", "1433")
        use_windows_auth == LowerIsTrue(Getenv(env, "MSSQL_WINDOWS_AUTH", "false"))
        drivers == SelectDrivers(env.drivers)
    IN  IF Len(drivers) = 0
        THEN Raise("RuntimeError", <<"No SQL Server ODBC driver found. Please install ODBC Driver for SQL Server.">>)
        ELSE IF Falsy(database)
        THEN Raise("ValueError", <<"Missing required database configuration">>)
        ELSE IF ~use_windows_auth /\ (Falsy(env.MSSQL_USER) \/ Falsy(env.MSSQL_PASSWORD))
        THEN Raise("ValueError", <<"Missing required database configuration">>)
        ELSE Ok([conn_string |->
                    Join(<<";">>, <<<<"DRIVER={", drivers[1], "}">>,
                                    ServerPart(server, port),
                                    <<"DATABASE=", database>>>>
                                  \o AuthParts(env, use_windows_auth)
                                  \o EncryptParts(env, server)),
                 server |-> server,
                 database |-> database,
                 user |-> IF use_windows_auth THEN "Windows Auth" ELSE env.MSSQL_USER,
                 port |-> port])

get_command(env) == Getenv(env, "MSSQL_COMMAND", "execute_sql")

(***************************************************************************)
(* The environment of one invocation, the requests, and what the engine    *)
(* can answer.                                                             *)
(***************************************************************************)
BaseEnv ==
    [drivers |-> <<"SQLite3 ODBC Driver", "ODBC Driver 17 for SQL Server", "SQL Server">>,
     MSSQL_SERVER |-> Unset,
     MSSQL_DATABASE |-> "sales",
     MSSQL_USER |-> "sa",
     MSSQL_PASSWORD |-> "secret",
     MSSQL_PORT |-> Unset,
     MSSQL_WINDOWS_AUTH |-> Unset,
     MSSQL_ENCRYPT |-> Unset,
     MSSQL_COMMAND |-> Unset]

Envs ==
    { BaseEnv,
      [BaseEnv EXCEPT !.drivers = <<"SQLite3 ODBC Driver">>],
      [BaseEnv EXCEPT !.MSSQL_DATABASE = Unset],
      [BaseEnv EXCEPT !.MSSQL_DATABASE = ""],
      [BaseEnv EXCEPT !.MSSQL_PASSWORD = Unset],
      [BaseEnv EXCEPT !.MSSQL_USER = ""],
      [BaseEnv EXCEPT !.MSSQL_WINDOWS_AUTH = "TRUE", !.MSSQL_USER = Unset,
                      !.MSSQL_PASSWORD = Unset],
      [BaseEnv EXCEPT !.MSSQL_SERVER = "srv.database.windows.net"],
      [BaseEnv EXCEPT !.MSSQL_SERVER = "(localdb)\\MSSQLLocalDB", !.MSSQL_PORT = "1434"],
      [BaseEnv EXCEPT !.MSSQL_PORT = "1434", !.MSSQL_ENCRYPT = "true",
                      !.MSSQL_COMMAND = "run_sql"] }

Scheme == <<"m","s","s","q","l",":","/","/">>

UriPrefixes == {Scheme, <<"h","t","t","p",":","/","/">>, << >>}
UriTables == { <<"O","r","d","e","r","s">>,
               <<"d","b","o",".","O","r","d","e","r","s">>,
               <<"t","\n">>,
               <<"t",";","D","R","O","P">>,
               <<"a",".","b",".","c">>,
               << >> }
UriSuffixes == {<<"/","d","a","t","a">>, << >>, <<"/","x","/","d","a","t","a">>}
Uris == {p \o t \o s : p \in UriPrefixes, t \in UriTables, s \in UriSuffixes}

ToolNames == {"execute_sql", "run_sql", "drop_all"}

Queries == {
    <<"S","E","L","E","C","T"," ","1"," ","A","S"," ","x">>,
    <<"D","E","L","E","T","E"," ","F","R","O","M"," ","t"," ","W","H","E","R","E"," ","1","=","0">>,
    <<"s","e","l","e","c","t"," ","*"," ","f","r","o","m"," ","i","n","f","o","r","m","a","t","i","o","n","_","s","c","h","e","m","a",".","t","a","b","l","e","s">>,
    <<"-","-"," ","S","E","L","E","C","T","\n","U","P","D","A","T","E"," ","t"," ","S","E","T"," ","x","=","1">>,
    <<"/","*"," ","c"," ","*","/"," ","S","E","L","E","C","T"," ","*"," ","F","R","O","M"," ","t">>,
    <<"W","I","T","H"," ","c"," ","A","S"," ","(","S","E","L","E","C","T"," ","1",")"," ","S","E","L","E","C","T"," ","*"," ","F","R","O","M"," ","c">> }

\* the arguments dict: the "query" key may be missing, empty, or a text
Arguments == {[limit |-> "10"]} \cup {[query |-> q] : q \in Queries \cup {<< >>}}

\* cell values as the driver hands them over: integers, a string, NULL
TwoColumnRows == {<<"int:1", "str:A">>, <<"str:B", "null">>}
OneColumnRows == {<<"int:1">>}

\* what cursor.execute leaves behind: a result set (description and rows) or,
\* for a statement that returns no rows, only a row count
EngineResults ==
    {[result_set |-> TRUE, description |-> <<"Id", "Name">>, rows |-> rs, rowcount |-> -1] :
        rs \in SeqsUpTo(TwoColumnRows, MaxRows)}
    \cup {[result_set |-> TRUE, description |-> <<"x">>, rows |-> rs, rowcount |-> -1] :
        rs \in SeqsUpTo(OneColumnRows, MaxRows)}
    \cup {[result_set |-> FALSE, description |-> << >>, rows |-> << >>, rowcount |-> n] :
        n \in {0, 1}}

\* cursor.description is not None
HasResultSet(e) == e.result_set

\* before cursor.execute has succeeded
NoEngine == [executed |-> FALSE]
\* before cursor.fetchall has succeeded
NotFetched == [done |-> FALSE]
Fetched(rows) == [done |-> TRUE, rows |-> rows]

\* str(cell)
Str(cell) ==
    CASE cell = "int:1" -> "1"
      [] cell = "int:2" -> "2"
      [] cell = "str:A" -> "A"
      [] cell = "str:B" -> "B"
      [] cell = "null" -> "None"

\* ",".join(map(str, row))
RowLine(row) == Join(<<",">>, [i \in 1..Len(row) |-> <<Str(row[i])>>])

\* "\n".join([",".join(columns)] + result)
TableText(columns, rows) ==
    Join(<<"\n">>, <<Join(<<",">>, [i \in 1..Len(columns) |-> <<columns[i]>>])>>
                   \o [i \in 1..Len(rows) |-> RowLine(rows[i])])

TextContent(text) == [type |-> "text", text |-> text]

Return(value) == [kind |-> "return", value |-> value]
Propagate(e) == [kind |-> "raise", type |-> e.type, msg |-> e.msg]

\* before the invocation reads them: no environment, no configuration
NoEnviron == [loaded |-> FALSE]
NoConfig == [resolved |-> FALSE]
\* before the function under test has returned
NoReturn == [returned |-> FALSE]
NoRequest == [kind |-> "none"]
NoResponse == [kind |-> "none"]
NoError == [step |-> "none"]

\* an exception and the step of the handler that raised it
Raised(step, type, msg) == [step |-> step, type |-> type, msg |-> msg]
DriverError(step) == Raised(step, "pyodbc.Error", <<"driver error in ", step>>)

GatewayIdle ==
    /\ op = "idle"
    /\ pc = "idle"
    /\ environ = NoEnviron
    /\ request = NoRequest
    /\ config = NoConfig
    /\ conn = "none"
    /\ cursor = "none"
    /\ connects = 0
    /\ sent = << >>
    /\ commits = 0
    /\ engine = NoEngine
    /\ fetched = NotFetched
    /\ raised = NoError
    /\ response = NoResponse

\* a variant of the except clause of list_resources that lets the error out
ListExceptReraise(e) == Propagate(e)

\* list_resources: except Exception as e: log, return []
ListExcept(e) == Return(<< >>)

\* read_resource: except Exception as e: log, raise RuntimeError(f"Database error: {str(e)}")
ReadExcept(e) ==
    [kind |-> "raise", type |-> "RuntimeError", msg |-> <<"Database error: ">> \o e.msg]

\* a variant of the except clause of call_tool that lets the error out
ToolExceptReraise(e) == Propagate(e)

\* call_tool: except Exception as e: log, return the error as text
ToolExcept(e) == Return(<<TextContent(<<"Error executing query: ">> \o e.msg)>>)

\* the handler ends: by its except clause, or by an error raised outside it
Abort(e, resp) ==
    /\ raised' = e
    /\ response' = resp
    /\ pc' = "done"

\* a statement that stands outside the try block of its handler
OutsideTry == "outside try"

\* what becomes of an exception e: the except clause of the handler whose try
\* block it was raised in, or raised to the caller when outside the try
ExceptClause(handler, e) ==
    CASE handler = "list_resources" -> ListExcept(e)
      [] handler = "read_resource" -> ReadExcept(e)
      [] handler = "call_tool" -> ToolExcept(e)
      [] OTHER -> Propagate(e)

\* an exception e raised in the try block of the handler, or outside it
AbortWith(e, handler) == Abort(e, ExceptClause(handler, e))

\* config = get_db_config(): c is what the resolver gave; an error leaves the
\* handler at once, since the call stands before the try
ResolveConfig(c, Continue) ==
    IF c.ok
    THEN config' = c.value /\ Continue
    ELSE config' = config /\ AbortWith(Raised("config", c.type, c.msg), OutsideTry)

\* a handler is invoked with the environment and the arguments of this call
Enter(handler, env, req) ==
    /\ op = "idle"
    /\ op' = handler
    /\ environ' = env
    /\ request' = req
    /\ UNCHANGED <<conn, cursor, connects, sent, commits, engine, fetched>>
    /\ UNCHANGED fnvars

\* ---- the driver calls, shared by the three handlers -----------------------
\* conn = pyodbc.connect(config["conn_string"])
Connect(handler) ==
    /\ op = handler
    /\ pc = "connect"
    /\ connects' = connects + 1
    /\ \E ok \in BOOLEAN :
          IF ok
          THEN conn' = "open" /\ pc' = "cursor" /\ UNCHANGED <<raised, response>>
          ELSE conn' = conn /\ AbortWith(DriverError("connect"), handler)
    /\ UNCHANGED <<op, environ, request, config, cursor, sent, commits, engine, fetched>>
    /\ UNCHANGED fnvars

\* cursor = conn.cursor()
OpenCursor(handler) ==
    /\ op = handler
    /\ pc = "cursor"
    /\ \E ok \in BOOLEAN :
          IF ok
          THEN cursor' = "open" /\ pc' = "execute" /\ UNCHANGED <<raised, response>>
          ELSE cursor' = cursor /\ AbortWith(DriverError("cursor"), handler)
    /\ UNCHANGED <<op, environ, request, config, conn, connects, sent, commits, engine, fetched>>
    /\ UNCHANGED fnvars

\* cursor.execute(statement); branch is where the handler goes on afterwards
Execute(handler, statement, branch) ==
    /\ op = handler
    /\ pc = "execute"
    /\ sent' = Append(sent, statement)
    /\ \/ \E e \in EngineResults :
             /\ engine' = e
             /\ pc' = branch
             /\ UNCHANGED <<raised, response>>
       \/ /\ engine' = engine
          /\ AbortWith(DriverError("execute"), handler)
    /\ UNCHANGED <<op, environ, request, config, conn, cursor, connects, commits, fetched>>
    /\ UNCHANGED fnvars

\* cursor.close()
CloseCursor(handler) ==
    /\ op = handler
    /\ pc = "close_cursor"
    /\ \E ok \in BOOLEAN :
          IF ok
          THEN cursor' = "closed" /\ pc' = "close_conn" /\ UNCHANGED <<raised, response>>
          ELSE cursor' = cursor
               /\ AbortWith(DriverError("close_cursor"), handler)
    /\ UNCHANGED <<op, environ, request, config, conn, connects, sent, commits, engine, fetched>>
    /\ UNCHANGED fnvars

\* conn.close(), then the return statement with the value the handler built
CloseConn(handler, value) ==
    /\ op = handler
    /\ pc = "close_conn"
    /\ \E ok \in BOOLEAN :
          IF ok
          THEN conn' = "closed" /\ pc' = "done" /\ response' = Return(value)
               /\ UNCHANGED raised
          ELSE conn' = conn
               /\ AbortWith(DriverError("close_conn"), handler)
    /\ UNCHANGED <<op, environ, request, config, cursor, connects, sent, commits, engine, fetched>>
    /\ UNCHANGED fnvars

\* ---- list_resources -------------------------------------------------------
CatalogQuery ==
    <<"SELECT TABLE_NAME FROM INFORMATION_SCHEMA.TABLES WHERE TABLE_TYPE = 'BASE TABLE'">>

\* the Resource built for each fetched row
Resources(tables) ==
    [i \in 1..Len(tables) |->
        [uri |-> Scheme \o <<Str(tables[i][1])>> \o <<"/","d","a","t","a">>,
         name |-> <<"Table: ", Str(tables[i][1])>>,
         mimeType |-> "text/plain",
         description |-> <<"Data in table: ", Str(tables[i][1])>>]]

ListEnter ==
    \E env \in Envs :
        /\ Enter("list_resources", env, [kind |-> "list_resources"])
        /\ ResolveConfig(get_db_config(env),
                         pc' = "connect" /\ UNCHANGED <<raised, response>>)

ListConnect == Connect("list_resources")

ListCursor == OpenCursor("list_resources")

ListExecute == Execute("list_resources", CatalogQuery, "fetch")

\* tables = cursor.fetchall() and the loop building the resources
ListFetch ==
    /\ op = "list_resources"
    /\ pc = "fetch"
    /\ \E ok \in BOOLEAN :
          IF ok /\ HasResultSet(engine)
          THEN fetched' = Fetched(engine.rows) /\ pc' = "close_cursor"
               /\ UNCHANGED <<raised, response>>
          ELSE fetched' = fetched /\ AbortWith(DriverError("fetch"), "list_resources")
    /\ UNCHANGED <<op, environ, request, config, conn, cursor, connects, sent, commits, engine>>
    /\ UNCHANGED fnvars

ListCloseCursor == CloseCursor("list_resources")

ListCloseConn == CloseConn("list_resources", Resources(fetched.rows))

\* ---- read_resource --------------------------------------------------------
\* a variant of the scheme test that lets every URI through
BadSchemeNever(uri_str) == FALSE

\* not uri_str.startswith("mssql://")
BadScheme(uri_str) == ~StartsWith(uri_str, Scheme)

\* parts = uri_str[8:].split('/'); table = parts[0]
TableOf(uri_str) == SplitOn(SubSeq(uri_str, 9, Len(uri_str)), "/")[1]

\* f"SELECT TOP 100 * FROM {safe_table}"
ReadStatement(uri_str) ==
    <<"SELECT TOP 100 * FROM ">> \o validate_table_name(TableOf(uri_str)).value

ReadEnter ==
    \E env \in Envs, uri \in Uris :
        /\ Enter("read_resource", env, [kind |-> "read_resource", uri |-> uri])
        /\ ResolveConfig(get_db_config(env),
              IF BadScheme(uri)
              THEN AbortWith(Raised("uri", "ValueError", <<"Invalid URI scheme: ">> \o uri),
                             OutsideTry)
              ELSE pc' = "validate" /\ UNCHANGED <<raised, response>>)

\* safe_table = validate_table_name(table), the first statement of the try
ReadValidate ==
    /\ op = "read_resource"
    /\ pc = "validate"
    /\ IF validate_table_name(TableOf(request.uri)).ok
       THEN pc' = "connect" /\ UNCHANGED <<raised, response>>
       ELSE AbortWith(Raised("validate",
                             validate_table_name(TableOf(request.uri)).type,
                             validate_table_name(TableOf(request.uri)).msg),
                      "read_resource")
    /\ UNCHANGED <<op, environ, request, config, conn, cursor, connects, sent, commits,
                   engine, fetched>>
    /\ UNCHANGED fnvars

ReadConnect == Connect("read_resource")

ReadCursor == OpenCursor("read_resource")

ReadExecute ==
    Execute("read_resource", ReadStatement(request.uri), "fetch")

\* columns = [desc[0] for desc in cursor.description]; rows = cursor.fetchall();
\* result = [",".join(map(str, row)) for row in rows]
FetchRows(handler, at) ==
    /\ op = handler
    /\ pc = at
    /\ IF ~HasResultSet(engine)
       THEN fetched' = fetched
            /\ AbortWith(Raised("format", "TypeError", <<"'NoneType' object is not iterable">>),
                         handler)
       ELSE \E ok \in BOOLEAN :
               IF ok
               THEN fetched' = Fetched(engine.rows) /\ pc' = "close_cursor"
                    /\ UNCHANGED <<raised, response>>
               ELSE fetched' = fetched
                    /\ AbortWith(DriverError("fetch"), handler)
    /\ UNCHANGED <<op, environ, request, config, conn, cursor, connects, sent, commits, engine>>
    /\ UNCHANGED fnvars

ReadFetch == FetchRows("read_resource", "fetch")

ReadCloseCursor == CloseCursor("read_resource")

ReadCloseConn ==
    CloseConn("read_resource", TableText(engine.description, fetched.rows))

\* ---- call_tool ------------------------------------------------------------
\* a variant of the name test that accepts every name
UnknownToolNever(name, command) == FALSE

\* name != command
UnknownTool(name, command) == name # command

\* query = arguments.get("query"); not query
QueryMissing(arguments) ==
    "query" \notin DOMAIN arguments \/ arguments.query = << >>

CatalogView ==
    <<"I","N","F","O","R","M","A","T","I","O","N","_","S","C","H","E","M","A",".","T","A","B","L","E","S">>

\* a variant of the branch that treats every statement as a write
ToolBranchAlwaysCommit(query) == "commit"

\* the if / elif / else after cursor.execute(query)
ToolBranch(query) ==
    IF is_select_query(query) /\ Contains(Upper(query), CatalogView)
    THEN "fetch_tables"
    ELSE IF is_select_query(query) THEN "fetch_rows"
    ELSE "commit"

\* table[0] can be joined by "\n".join only when it is a str
IsStr(cell) == cell = "str:B" \/ cell = "str:A"

\* ["Tables_in_" + database] + [table[0] for table in tables], joined by "\n"
TablesText(database, tables) ==
    Join(<<"\n">>, <<<<"Tables_in_", database>>>>
                   \o [i \in 1..Len(tables) |-> <<Str(tables[i][1])>>])

\* "\n".join(result) of the table-listing branch raises on a non-str item
JoinRaises(branch, f) ==
    branch = "fetch_tables" /\ \E i \in 1..Len(f.rows) : ~IsStr(f.rows[i][1])

RowsAffectedText(n) == <<"Query executed successfully. Rows affected: ", ToString(n)>>

\* the text of the TextContent each branch returns
ToolText(branch, cfg, eng, f) ==
    CASE branch = "fetch_tables" -> TablesText(cfg.database, f.rows)
      [] branch = "fetch_rows" -> TableText(eng.description, f.rows)
      [] branch = "commit" -> RowsAffectedText(eng.rowcount)

ToolEnter ==
    \E env \in Envs, name \in ToolNames, arguments \in Arguments :
        /\ Enter("call_tool", env, [kind |-> "call_tool", name |-> name, arguments |-> arguments])
        /\ ResolveConfig(get_db_config(env),
              IF UnknownTool(name, get_command(env))
              THEN AbortWith(Raised("name", "ValueError", <<"Unknown tool: ", name>>), OutsideTry)
              ELSE IF QueryMissing(arguments)
              THEN AbortWith(Raised("query", "ValueError", <<"Query is required">>), OutsideTry)
              ELSE pc' = "connect" /\ UNCHANGED <<raised, response>>)

ToolConnect == Connect("call_tool")

ToolCursor == OpenCursor("call_tool")

ToolExecute ==
    Execute("call_tool", request.arguments.query,
            ToolBranch(request.arguments.query))

\* tables = cursor.fetchall() of the table-listing branch
ToolFetchTables ==
    /\ op = "call_tool"
    /\ pc = "fetch_tables"
    /\ \E ok \in BOOLEAN :
          IF ok /\ HasResultSet(engine)
          THEN fetched' = Fetched(engine.rows) /\ pc' = "close_cursor"
               /\ UNCHANGED <<raised, response>>
          ELSE fetched' = fetched /\ AbortWith(DriverError("fetch"), "call_tool")
    /\ UNCHANGED <<op, environ, request, config, conn, cursor, connects, sent, commits, engine>>
    /\ UNCHANGED fnvars

ToolFetchRows == FetchRows("call_tool", "fetch_rows")

\* conn.commit(); affected_rows = cursor.rowcount
ToolCommit ==
    /\ op = "call_tool"
    /\ pc = "commit"
    /\ commits' = commits + 1
    /\ \E ok \in BOOLEAN :
          IF ok
          THEN pc' = "close_cursor" /\ UNCHANGED <<raised, response>>
          ELSE AbortWith(DriverError("commit"), "call_tool")
    /\ UNCHANGED <<op, environ, request, config, conn, cursor, connects, sent, engine, fetched>>
    /\ UNCHANGED fnvars

ToolCloseCursor == CloseCursor("call_tool")

\* conn.close() and the return statement of the branch taken; the table-listing
\* branch joins the raw table[0] values after the connection is closed
ToolCloseConn ==
    /\ op = "call_tool"
    /\ pc = "close_conn"
    /\ \E ok \in BOOLEAN :
          IF ~ok
          THEN conn' = conn /\ AbortWith(DriverError("close_conn"), "call_tool")
          ELSE /\ conn' = "closed"
               /\ IF JoinRaises(ToolBranch(request.arguments.query), fetched)
                  THEN AbortWith(Raised("format", "TypeError",
                                        <<"sequence item 1: expected str instance">>),
                                 "call_tool")
                  ELSE /\ pc' = "done"
                       /\ raised' = raised
                       /\ response' = Return(<<TextContent(
                              ToolText(ToolBranch(request.arguments.query),
                                       config, engine, fetched))>>)
    /\ UNCHANGED <<op, environ, request, config, cursor, connects, sent, commits, engine, fetched>>
    /\ UNCHANGED fnvars

\* ---- between invocations --------------------------------------------------
\* nothing of an invocation is kept: the next one starts from scratch
Reset ==
    /\ pc = "done"
    /\ op' = "idle"
    /\ pc' = "idle"
    /\ environ' = NoEnviron
    /\ request' = NoRequest
    /\ config' = NoConfig
    /\ conn' = "none"
    /\ cursor' = "none"
    /\ connects' = 0
    /\ sent' = << >>
    /\ commits' = 0
    /\ engine' = NoEngine
    /\ fetched' = NotFetched
    /\ raised' = NoError
    /\ response' = NoResponse
    /\ UNCHANGED fnvars

Init ==
    /\ GatewayIdle
    /\ arg = << >>
    /\ fpc = "off"
    /\ ret = NoReturn
    /\ ret2 = FALSE

Next ==
    \/ ListEnter \/ ListConnect \/ ListCursor \/ ListExecute \/ ListFetch
    \/ ListCloseCursor \/ ListCloseConn
    \/ ReadEnter \/ ReadValidate \/ ReadConnect \/ ReadCursor \/ ReadExecute
    \/ ReadFetch \/ ReadCloseCursor \/ ReadCloseConn
    \/ ToolEnter \/ ToolConnect \/ ToolCursor \/ ToolExecute \/ ToolFetchTables
    \/ ToolFetchRows \/ ToolCommit \/ ToolCloseCursor \/ ToolCloseConn
    \/ Reset

Spec == Init /\ [][Next]_vars

(***************************************************************************)
(* The two pure functions applied to bounded inputs.                       *)
(***************************************************************************)
\* characters table names are built from: letters of both cases, a digit, the
\* underscore, the dot, and characters outside the grammar
NameAlphabet == {"a", "Z", "0", "_", ".", ";", " ", "\n"}
Names == SeqsUpTo(NameAlphabet, MaxNameLen)

\* pieces statement texts are built from
Chunks == {<<"/">>, <<"*">>, <<"/", "*", "*", "/">>, <<"*", "/">>, <<"-", "-">>, <<"\n">>, SELECT}

ExampleStatements == {
    <<"-","-"," ","S","E","L","E","C","T","\n","U","P","D","A","T","E"," ","t"," ","S","E","T"," ","x","=","1">>,
    <<"/","*"," ","c"," ","*","/"," ","S","E","L","E","C","T"," ","*"," ","F","R","O","M"," ","t">>,
    << >>,
    <<"s","e","l","e","c","t"," ","1">>,
    <<" ","\t","S","e","L","e","C","t","\r","\n","1">>,
    <<"S","E","L","E","C","T","*","F","R","O","M"," ","t">>,
    <<"/","*"," ","S","E","L","E","C","T"," ","*","/"," ","U","P","D","A","T","E"," ","t"," ","S","E","T"," ","x","=","1">>,
    <<"/","*"," ","S","E","L","E","C","T"," ","*","/">>,
    <<"W","I","T","H"," ","c"," ","A","S"," ","(","S","E","L","E","C","T"," ","1",")"," ","S","E","L","E","C","T"," ","*"," ","F","R","O","M"," ","c">>,
    <<"E","X","E","C"," ","s","p","_","w","h","o">>,
    <<"-","/","*","*","/","-"," ","x","\n","S","E","L","E","C","T"," ","1">>,
    <<"/","*"," ","a","\n","-","-"," ","*","/"," ","S","E","L","E","C","T"," ","1">>,
    <<"S","E","L","E","C","T"," ","1"," ","-","-"," ","/","*","\n","x"," ","*","/">>,
    <<"D","E","L","E","T","E"," ","F","R","O","M"," ","t"," ","W","H","E","R","E"," ","1","=","0">> }

Statements == {Flatten(cs) : cs \in SeqsUpTo(Chunks, MaxChunks)} \cup ExampleStatements

\* ---- validate_table_name -------------------------------------------------
InitValidate ==
    /\ GatewayIdle
    /\ arg \in Names
    /\ fpc = "call"
    /\ ret = NoReturn
    /\ ret2 = FALSE

ValidateCall ==
    /\ fpc = "call"
    /\ ret' = validate_table_name(arg)
    /\ fpc' = "done"
    /\ UNCHANGED <<arg, ret2>>
    /\ UNCHANGED gwvars

NextValidate == ValidateCall

SpecValidate == InitValidate /\ [][NextValidate]_vars

\* ---- is_select_query -----------------------------------------------------
InitClassify ==
    /\ GatewayIdle
    /\ arg \in Statements
    /\ fpc = "call"
    /\ ret = NoReturn
    /\ ret2 = FALSE

\* classify the statement; keep the stripped text the classifier worked on
Classify ==
    /\ fpc = "call"
    /\ ret' = [cleaned |-> strip_comments(arg), select |-> is_select_query(arg)]
    /\ fpc' = "classified"
    /\ UNCHANGED <<arg, ret2>>
    /\ UNCHANGED gwvars

\* classify the already stripped text
Reclassify ==
    /\ fpc = "classified"
    /\ ret2' = is_select_query(ret.cleaned)
    /\ fpc' = "reclassified"
    /\ UNCHANGED <<arg, ret>>
    /\ UNCHANGED gwvars

NextClassify == Classify \/ Reclassify

SpecClassify == InitClassify /\ [][NextClassify]_vars

(***************************************************************************)
(* Reference definitions the claims are stated with.  They are written     *)
(* from the grammar and the classification rule, not from the code paths.  *)
(***************************************************************************)
IdentChars ==
    {LowerCase[i] : i \in 1..26} \cup {UpperCase[i] : i \in 1..26} \cup Digits \cup {"_"}

IsSegment(t) == Len(t) >= 1 /\ \A i \in 1..Len(t) : t[i] \in IdentChars

\* ^[A-Za-z0-9_]+(\.[A-Za-z0-9_]+)?$ as a match of the whole string
MatchesGrammar(s) ==
    \/ IsSegment(s)
    \/ \E d \in 1..Len(s) :
          /\ s[d] = "."
          /\ IsSegment(SubSeq(s, 1, d - 1))
          /\ IsSegment(SubSeq(s, d + 1, Len(s)))

\* '[table]' or '[schema].[table]', segments in their original order
Bracketed(s) ==
    IF \E d \in 1..Len(s) : s[d] = "."
    THEN LET d == CHOOSE k \in 1..Len(s) : s[k] = "."
         IN  <<"[">> \o SubSeq(s, 1, d - 1) \o <<"]", ".", "[">>
                 \o SubSeq(s, d + 1, Len(s)) \o <<"]">>
    ELSE <<"[">> \o s \o <<"]">>

RECURSIVE PickInOrder(_, _)
PickInOrder(s, idx) ==
    IF idx = {} THEN << >>
    ELSE <<s[Min(idx)]>> \o PickInOrder(s, idx \ {Min(idx)})

\* positions of s outside every block comment, comments taken left to right,
\* each from its "/*" to the nearest following "*/"
RECURSIVE OutsideBlock(_, _)
OutsideBlock(s, i) ==
    IF i > Len(s) THEN {}
    ELSE LET closes == {j \in (i + 2)..(Len(s) - 1) : s[j] = "*" /\ s[j + 1] = "/"}
         IN  IF i < Len(s) /\ s[i] = "/" /\ s[i + 1] = "*" /\ closes # {}
             THEN OutsideBlock(s, Min(closes) + 2)
             ELSE {i} \cup OutsideBlock(s, i + 1)

WithoutBlockComments(s) == PickInOrder(s, OutsideBlock(s, 1))

\* positions of s not in a line comment: a newline, or a character with no
\* "--" starting at or before it on its own line
OutsideLine(s) ==
    {i \in 1..Len(s) :
        \/ s[i] = "\n"
        \/ ~\E j \in 1..i :
              /\ j < Len(s)
              /\ s[j] = "-"
              /\ s[j + 1] = "-"
              /\ \A k \in j..i : s[k] # "\n"}

WithoutLineComments(s) == PickInOrder(s, OutsideLine(s))

WithoutComments(s) == WithoutLineComments(WithoutBlockComments(s))

SameLetter(x, y) ==
    x = y \/ \E n \in 1..26 : {x, y} = {LowerCase[n], UpperCase[n]}

\* the first whitespace-delimited token of s is SELECT, in any letter case
FirstTokenIsSelect(s) ==
    \E b \in 1..Len(s) :
        LET e == b + 5
        IN  /\ e <= Len(s)
            /\ \A k \in 1..(b - 1) : s[k] \in Whitespace
            /\ \A k \in 1..6 : SameLetter(s[b + k - 1], SELECT[k])
            /\ e = Len(s) \/ s[e + 1] \in Whitespace

\* C3: validate_table_name succeeds exactly for the strings matching the
\* grammar as a whole string, and then returns the bracketed form with the
\* segments in order; every other string raises the validation error.
C3_ValidateIffGrammar ==
    fpc = "done" =>
        /\ ret.ok <=> MatchesGrammar(arg)
        /\ ret.ok => ret.value = Bracketed(arg)
        /\ ~ret.ok => ret.type = "ValueError"

\* C7: is_select_query is true exactly when the first whitespace-delimited
\* token of the text without block and then line comments is SELECT in any
\* letter case; the three examples of the specification classify as stated.
C7_ReadIffFirstTokenSelect ==
    fpc = "classified" =>
        /\ ret.select <=> FirstTokenIsSelect(WithoutComments(arg))
        /\ arg = <<"-","-"," ","S","E","L","E","C","T","\n","U","P","D","A","T","E"," ","t"," ","S","E","T"," ","x","=","1">>
              => ~ret.select
        /\ arg = <<"/","*"," ","c"," ","*","/"," ","S","E","L","E","C","T"," ","*"," ","F","R","O","M"," ","t">>
              => ret.select
        /\ arg = << >> => ~ret.select

\* a statement with SELECT inside a comment and one classified READ after a
\* comment have both been classified
C7_Witness ==
    /\ fpc = "classified"
    /\ ret.select
    /\ Contains(arg, <<"*", "/">>)
    /\ ret.cleaned # arg

\* C6 as stated: classifying the stripped text gives the same kind as
\* classifying the original text.
C6_ReclassifySame ==
    fpc = "reclassified" => ret2 = ret.select

\* C6 amended: reclassifying the stripped text never turns READ into WRITE,
\* and gives the same kind whenever the stripped text holds no "/*".
C6_ReclassifyStable ==
    fpc = "reclassified" =>
        /\ ret.select => ret2
        /\ ~Contains(ret.cleaned, <<"/", "*">>) => ret2 = ret.select

\* a text whose comments were stripped and that kept its kind on the second
\* classification
C6_Witness ==
    /\ fpc = "reclassified"
    /\ ret.cleaned # arg
    /\ ret.select
    /\ ret2

(***************************************************************************)
(* Reference definitions for the gateway claims.                           *)
(***************************************************************************)
\* the configuration can be resolved: a SQL Server driver, a database name,
\* and either integrated authentication or both user and password
ConfigComplete(env) ==
    /\ \E i \in DOMAIN env.drivers : env.drivers[i] \in SqlServerDrivers
    /\ env.MSSQL_DATABASE \notin {Unset, ""}
    /\ \/ env.MSSQL_WINDOWS_AUTH \in {"true", "True", "TRUE"}
       \/ env.MSSQL_USER \notin {Unset, ""} /\ env.MSSQL_PASSWORD \notin {Unset, ""}

\* MSSQL_COMMAND, default execute_sql
ConfiguredCommand(env) ==
    IF env.MSSQL_COMMAND = Unset THEN "execute_sql" ELSE env.MSSQL_COMMAND

\* the first path segment after "mssql://": the text up to the next "/"
TableSegment(uri) ==
    LET rest == SubSeq(uri, Len(Scheme) + 1, Len(uri))
        cut == {i \in 1..Len(rest) : rest[i] = "/"}
    IN  IF cut = {} THEN rest ELSE SubSeq(rest, 1, Min(cut) - 1)

\* mssql://<table>/data with no "/" inside <table>
IsDataForm(uri) ==
    LET rest == SubSeq(uri, Len(Scheme) + 1, Len(uri))
        n == Len(rest) - 5
    IN  /\ StartsWith(uri, Scheme)
        /\ n >= 0
        /\ SubSeq(rest, n + 1, Len(rest)) = <<"/","d","a","t","a">>
        /\ \A i \in 1..n : rest[i] # "/"

Failed == raised.step # "none"
Executed == "rowcount" \in DOMAIN engine
ErrorText == Return(<<TextContent(<<"Error executing query: ">> \o raised.msg)>>)
ReadSelect(uri) == <<"SELECT TOP 100 * FROM ">> \o Bracketed(TableSegment(uri))

\* C1: when a handler has ended, by return or by raise, the connection it
\* opened is closed.
C1_ConnectionClosedAtExit ==
    pc = "done" => conn # "open"

\* C2: read_resource opens no connection and sends no statement for a table
\* segment outside the grammar, and fails; what it sends for a segment inside
\* the grammar is SELECT TOP 100 * FROM <escaped>.
C2_InvalidTableNeverReachesEngine ==
    op = "read_resource" =>
        /\ ~MatchesGrammar(TableSegment(request.uri)) =>
              /\ connects = 0
              /\ sent = << >>
              /\ pc = "done" => response.kind = "raise"
        /\ sent # << >> =>
              /\ MatchesGrammar(TableSegment(request.uri))
              /\ sent = <<ReadSelect(request.uri)>>

\* C4 as stated: list_resources never raises, and returns the empty list
\* whenever anything failed, a failure to resolve the configuration included.
C4_ListNeverPropagates ==
    op = "list_resources" /\ pc = "done" =>
        /\ response.kind = "return"
        /\ Failed => response.value = << >>

\* C4 amended: with a configuration that resolves, list_resources never
\* raises and returns the empty list whenever a driver call failed; a
\* configuration that does not resolve is raised to the caller before any
\* connection is attempted.
C4_ListSwallowsDriverFailures ==
    op = "list_resources" /\ pc = "done" =>
        IF ConfigComplete(environ)
        THEN /\ response.kind = "return"
             /\ Failed => response.value = << >>
        ELSE /\ response.kind = "raise"
             /\ response.type \in {"RuntimeError", "ValueError"}
             /\ connects = 0
             /\ sent = << >>

\* the catalog query failed on an open connection and the empty list came back
C4_Witness ==
    /\ op = "list_resources"
    /\ pc = "done"
    /\ raised.step = "execute"
    /\ connects = 1
    /\ response = Return(<< >>)

\* C5: in call_tool, with the configured name and a non-empty query, a
\* failure of any driver call or of the formatting is returned as the text
\* 'Error executing query: <message>', nothing is raised, and no driver call
\* is made a second time.
C5_ToolFailureIsErrorText ==
    ( /\ op = "call_tool"
      /\ ConfigComplete(environ)
      /\ request.name = ConfiguredCommand(environ)
      /\ "query" \in DOMAIN request.arguments
      /\ request.arguments.query # << >> ) =>
        /\ connects <= 1
        /\ Len(sent) <= 1
        /\ commits <= 1
        /\ pc = "done" /\ Failed => response = ErrorText
        /\ pc = "done" => response.kind = "return"

\* a commit failed and the handler returned the error text
C5_Witness ==
    /\ op = "call_tool"
    /\ pc = "done"
    /\ raised.step = "commit"
    /\ response = ErrorText

\* C8 as stated: a name other than the configured command always ends in the
\* unknown-tool error, with no connection, no statement and no payload.
C8_UnknownToolAlways ==
    op = "call_tool" /\ request.name # ConfiguredCommand(environ) =>
        /\ connects = 0
        /\ sent = << >>
        /\ pc = "done" =>
              /\ response.kind = "raise"
              /\ response.msg = <<"Unknown tool: ", request.name>>

\* C8 amended: a name other than the configured command always ends in an
\* error, with no connection, no statement and no payload; the error is the
\* unknown-tool error when the configuration resolves, and the configuration
\* error, raised first, when it does not.
C8_UnknownToolOrConfigError ==
    op = "call_tool" /\ request.name # ConfiguredCommand(environ) =>
        /\ connects = 0
        /\ sent = << >>
        /\ commits = 0
        /\ pc = "done" =>
              /\ response.kind = "raise"
              /\ ConfigComplete(environ) =>
                    /\ response.type = "ValueError"
                    /\ response.msg = <<"Unknown tool: ", request.name>>
              /\ ~ConfigComplete(environ) => raised.step = "config"

\* a well-formed query under another name was refused as an unknown tool
C8_Witness ==
    /\ op = "call_tool"
    /\ pc = "done"
    /\ request.name # ConfiguredCommand(environ)
    /\ "query" \in DOMAIN request.arguments
    /\ request.arguments.query # << >>
    /\ response.kind = "raise"
    /\ response.msg = <<"Unknown tool: ", request.name>>

\* C9 as stated, taken with a configuration that resolves: a URI that is not
\* mssql://<table>/data is refused with the invalid-scheme error and reaches
\* no database.
C9_OnlyDataFormAccepted ==
    op = "read_resource" /\ ConfigComplete(environ) /\ ~IsDataForm(request.uri) =>
        /\ connects = 0
        /\ sent = << >>
        /\ pc = "done" =>
              /\ response.kind = "raise"
              /\ response.msg = <<"Invalid URI scheme: ">> \o request.uri

\* C9 amended: a URI that does not start with mssql:// is refused without
\* any database access, with the invalid-scheme error when the configuration
\* resolves; of a URI that starts with mssql:// the text up to the next "/"
\* is the table, and what follows it is not looked at.
C9_SchemePrefixOnly ==
    op = "read_resource" =>
        /\ ~StartsWith(request.uri, Scheme) =>
              /\ connects = 0
              /\ sent = << >>
              /\ pc = "done" =>
                    /\ response.kind = "raise"
                    /\ ConfigComplete(environ) =>
                          /\ response.type = "ValueError"
                          /\ response.msg = <<"Invalid URI scheme: ">> \o request.uri
                    /\ ~ConfigComplete(environ) => raised.step = "config"
        /\ sent # << >> => sent = <<ReadSelect(request.uri)>>

\* a URI with another scheme was refused with the invalid-scheme error
C9_Witness ==
    /\ op = "read_resource"
    /\ pc = "done"
    /\ ~StartsWith(request.uri, Scheme)
    /\ Len(request.uri) > Len(Scheme)
    /\ response.kind = "raise"
    /\ response.msg = <<"Invalid URI scheme: ">> \o request.uri

\* the statement of this call_tool invocation is a write by the rule of C7
IsWrite == ~FirstTokenIsSelect(WithoutComments(request.arguments.query))
NamesCatalog == Contains(Upper(request.arguments.query), CatalogView)
RowsAffected == Return(<<TextContent(RowsAffectedText(engine.rowcount))>>)
FetchedRows == Return(<<TextContent(TableText(engine.description, fetched.rows))>>)
TableList == Return(<<TextContent(TablesText(config.database, fetched.rows))>>)

\* what C10 says of the order of the steps and of the commit
C10_Order ==
    /\ Len(sent) <= 1
    /\ commits <= 1
    /\ commits = 1 \/ fetched.done => Executed /\ sent = <<request.arguments.query>>
    /\ commits = 1 => IsWrite
    /\ Executed /\ IsWrite /\ pc = "done" => commits = 1
    /\ Executed /\ ~IsWrite => commits = 0
    /\ ~Executed => commits = 0

\* C10 as stated: one execution, before the result is shaped; a commit exactly
\* after a successful execution of a WRITE, and then the response is the
\* 'Rows affected: N' message; for a READ no commit and the response is the
\* fetched rows.
C10_CommitIffWriteThenCount ==
    op = "call_tool" /\ sent # << >> =>
        /\ C10_Order
        /\ commits = 1 /\ pc = "done" => response = RowsAffected
        /\ Executed /\ ~IsWrite /\ pc = "done" => fetched.done /\ response = FetchedRows

\* C10 amended: as stated for the order and the commit; the response is the
\* 'Rows affected: N' message, or for a READ the header and the fetched rows,
\* when no later step (commit, description, fetch, close, join) fails, and the
\* error text when one does; a READ that names INFORMATION_SCHEMA.TABLES is
\* answered with the Tables_in_<database> header and the first column.
C10_CommitIffWriteUnlessFailure ==
    op = "call_tool" /\ sent # << >> =>
        /\ C10_Order
        /\ pc = "done" /\ Failed => response = ErrorText
        /\ commits = 1 /\ pc = "done" /\ ~Failed => response = RowsAffected
        /\ Executed /\ ~IsWrite /\ pc = "done" /\ ~Failed =>
              response = IF NamesCatalog THEN TableList ELSE FetchedRows

\* a write was executed, committed, and answered with its row count
C10_Witness ==
    /\ op = "call_tool"
    /\ pc = "done"
    /\ commits = 1
    /\ engine.rowcount = 1
    /\ response = RowsAffected

====
